---- MODULE Spec2Model ----
(***************************************************************************)
(* ai-reader: entity extraction, mood detection, action extraction and the *)
(* prompt builders that compose them.                                      *)
(*                                                                         *)
(* Two specifications over one set of variables:                           *)
(*   Spec      one call of one operation, run to completion, on inputs     *)
(*             (arguments and oracle replies) drawn in Init;               *)
(*   SpecRace  threads calling the three analyzers, with the lru_cache     *)
(*             lookup and the oracle construction as separate steps.       *)
(*                                                                         *)
(* Representation.  A string whose characters the code inspects (an NER    *)
(* word, the text that is strip()ped) is a sequence of one-character       *)
(* strings; Str turns it into a TLA+ string when it is pasted into a       *)
(* prompt.  None is <<>> and a present optional value x is <<x>>.  A score *)
(* is the numerator n of the dyadic rational n / ScoreDen, which a float   *)
(* holds exactly; a rounded confidence is a whole number of thousandths.   *)
(***************************************************************************)
EXTENDS Integers, Sequences, FiniteSets, TLC

VARIABLES
    op,               \* the operation called (Spec)
    pc,               \* "call" before the operation ran, "done" after
    ents,             \* reconstruct_entities: the caller's token list
    ner,              \* NER oracle: [up, out]
    emo,              \* emotion oracle: [up, out]
    nlp,              \* parser oracle: [up, out]
    text,             \* the passage, as characters
    k,                \* detect_mood: k
    threshold,        \* detect_mood: threshold (numerator over ScoreDen)
    style,            \* build_image_prompt: style (optional)
    include_context,  \* build_image_prompt: include_context
    ret,              \* [status, value]: "pending", "ok" or "raise"
    cache,            \* lru_cache of each oracle kind: 0 (empty) or a handle
    built,            \* per oracle kind, the constructions completed
    thr,              \* SpecRace: each thread's position in its call
    called,           \* SpecRace: the oracle kinds some call has asked for
    raced             \* SpecRace: the kinds two overlapping calls both missed

vars == <<op, pc, ents, ner, emo, nlp, text, k, threshold, style,
          include_context, ret, cache, built, thr, called, raced>>

(***************************************************************************)
(* Bounds of the model.                                                    *)
(***************************************************************************)
MaxTokens == 3
MaxNerTokens == 2
MaxPromptTokens == 2
MaxLabels == 3
MaxPromptLabels == 2
MaxSentLen == 2
MaxMoreSents == 1
ScoreBits == 4
NThreads == 2

ScoreDen == 2 ^ ScoreBits

None == <<>>
Some(x) == <<x>>

Range(s) == {s[i] : i \in 1..Len(s)}

RECURSIVE SeqsUpTo(_, _)
SeqsUpTo(S, n) ==
    IF n = 0 THEN {<<>>}
    ELSE LET shorter == SeqsUpTo(S, n - 1)
         IN  shorter \cup {Append(s, x) : s \in {t \in shorter : Len(t) = n - 1}, x \in S}

RECURSIVE Str(_)
Str(cs) == IF cs = <<>> THEN "" ELSE Head(cs) \o Str(Tail(cs))

(***************************************************************************)
(* extraction.py: reconstruct_entities                                     *)
(***************************************************************************)

\* e["word"].startswith("##")
startswith_continuation(word) ==
    Len(word) >= 2 /\ SubSeq(word, 1, 2) = <<"#", "#">>

\* Mutant of strip_marker: the marker is kept.
strip_marker_kept(word) == word

\* e["word"][2:]
strip_marker(word) == SubSeq(word, 3, Len(word))

\* Mutant of min: the latest token's score wins.
min_latest(a, b) == b

\* min(current_entity["score"], e["score"])
min(a, b) == IF b < a THEN b ELSE a

\* The state of the walk: the output list, the accumulator (None or one
\* entity), the caller's list as the walk leaves it, and whether it raised.
WalkStart(tokens) ==
    [reconstructed |-> <<>>, current_entity |-> None, ents |-> tokens, raised |-> FALSE]

\* Mutant of append_subword: a continuation with no accumulator is skipped.
append_subword_lenient(st, e) ==
    IF st.current_entity = None
    THEN st
    ELSE LET cur == st.current_entity[1]
         IN  [st EXCEPT !.current_entity =
                 Some([text  |-> cur.text \o strip_marker(e.word),
                       type  |-> cur.type,
                       score |-> min(cur.score, e.score)])]

\* Lines 83-84: subscripting current_entity raises TypeError while it is None.
append_subword(st, e) ==
    IF st.current_entity = None
    THEN [st EXCEPT !.raised = TRUE]
    ELSE LET cur == st.current_entity[1]
         IN  [st EXCEPT !.current_entity =
                 Some([text  |-> cur.text \o strip_marker(e.word),
                       type  |-> cur.type,
                       score |-> min(cur.score, e.score)])]

\* Lines 88-90: a dict with three keys is truthy, None is not.
start_entity(st, e) ==
    [st EXCEPT !.reconstructed = IF st.current_entity # None
                                 THEN Append(st.reconstructed, st.current_entity[1])
                                 ELSE st.reconstructed,
               !.current_entity = Some([text |-> e.word, type |-> e.entity, score |-> e.score])]

loop_body(st, e) ==
    IF startswith_continuation(e.word) THEN append_subword(st, e) ELSE start_entity(st, e)

RECURSIVE walk(_, _)
walk(st, i) ==
    IF st.raised \/ i > Len(st.ents) THEN st
    ELSE walk(loop_body(st, st.ents[i]), i + 1)

\* Lines 93-94
add_last(st) ==
    IF st.current_entity # None
    THEN Append(st.reconstructed, st.current_entity[1])
    ELSE st.reconstructed

reconstruct_entities(tokens) ==
    LET st == walk(WalkStart(tokens), 1)
    IN  IF st.raised
        THEN [status |-> "raise", value |-> <<>>, ents |-> st.ents]
        ELSE [status |-> "ok", value |-> add_last(st), ents |-> st.ents]

(***************************************************************************)
(* The oracle handles: @lru_cache(maxsize=1) on a function of no argument. *)
(* A handle is named by the number of the construction that made it.       *)
(***************************************************************************)
Kinds == {"ner", "emo", "nlp"}

Cold == [kind \in Kinds |-> 0]
Warm == [kind \in Kinds |-> 1]

\* Mutant of lru_lookup: the decorator is missing, every call misses.
lru_lookup_uncached(c, kind) == 0

\* The wrapper's lookup: the cached handle, or 0 on a miss.
lru_lookup(c, kind) == c[kind]

\* The wrapper after the wrapped function returned h: the result is stored
\* unless the key was stored while the function ran.
lru_store(c, kind, h) == IF c[kind] = 0 THEN [c EXCEPT ![kind] = h] ELSE c

\* `_ner_pipeline()(text)`, `_sentiment_pipeline()(text[:512])`, `_nlp()(text)`
\* run without interruption: w is [cache, built], reply the oracle's
\* [loads, up, out]. On a hit the cached handle is called. On a miss the
\* wrapped function runs: if it raises nothing is stored and the call ends;
\* if it returns, the handle is stored before it is called, so it stays cached
\* when the call of the handle raises.
oracle(w, kind, reply) ==
    LET hit    == lru_lookup(w.cache, kind)
        h      == w.built[kind] + 1
        loaded == [cache |-> lru_store(w.cache, kind, h),
                   built |-> [w.built EXCEPT ![kind] = h]]
        answer == IF reply.up THEN "ok" ELSE "raise"
    IN  IF hit # 0 THEN [status |-> answer, out |-> reply.out, w |-> w]
        ELSE IF ~reply.loads THEN [status |-> "raise", out |-> reply.out, w |-> w]
        ELSE [status |-> answer, out |-> reply.out, w |-> loaded]

Raise(w) == [status |-> "raise", value |-> <<>>, w |-> w]
Return(v, w) == [status |-> "ok", value |-> v, w |-> w]

(***************************************************************************)
(* extraction.py: perform_ner                                              *)
(***************************************************************************)

\* Lines 52-59: the reshaped token.
simplify(raw) ==
    [i \in 1..Len(raw) |->
        [word |-> raw[i].word, entity |-> raw[i].entity_group, score |-> raw[i].score]]

perform_ner(w, reply) ==
    LET r == oracle(w, "ner", reply)
    IN  IF r.status = "raise" THEN Raise(r.w)
        ELSE LET rec == reconstruct_entities(simplify(r.out))
             IN  IF rec.status = "raise" THEN Raise(r.w) ELSE Return(rec.value, r.w)

(***************************************************************************)
(* mood.py: detect_mood                                                    *)
(***************************************************************************)
DefaultK == 1
DefaultThreshold == 0

\* str.lower() on the strings that reach it here.
lower(s) ==
    CASE s = "Sadness" -> "sadness"
      [] s = "NEUTRAL" -> "neutral"
      [] s = "Run"     -> "run"
      [] s = "Be"      -> "be"
      [] OTHER         -> s

\* round(float(score), 3) of n / ScoreDen, in thousandths: correctly rounded,
\* an exact tie going to the even neighbour.
round3(n) ==
    LET q == (n * 1000) \div ScoreDen
        r == (n * 1000) % ScoreDen
    IN  IF 2 * r < ScoreDen THEN q
        ELSE IF 2 * r > ScoreDen THEN q + 1
        ELSE IF q % 2 = 0 THEN q ELSE q + 1

\* Mutant of filter_threshold: nothing is filtered out.
filter_threshold_dropped(preds, t) == preds

\* Line 71
filter_threshold(preds, t) == SelectSeq(preds, LAMBDA p : p.score >= t)

\* Mutant of insert_desc: an element goes before its ties (the order an
\* ascending sort followed by reverse() gives).
RECURSIVE insert_desc_before_ties(_, _)
insert_desc_before_ties(sorted, p) ==
    IF sorted = <<>> THEN <<p>>
    ELSE IF Head(sorted).score > p.score
         THEN <<Head(sorted)>> \o insert_desc_before_ties(Tail(sorted), p)
         ELSE <<p>> \o sorted

\* list.sort(key=score, reverse=True): stable, so p goes after every element
\* whose score is at least its own.
RECURSIVE insert_desc(_, _)
insert_desc(sorted, p) ==
    IF sorted = <<>> THEN <<p>>
    ELSE IF Head(sorted).score >= p.score
         THEN <<Head(sorted)>> \o insert_desc(Tail(sorted), p)
         ELSE <<p>> \o sorted

RECURSIVE sort_desc_from(_, _, _)
sort_desc_from(sorted, preds, i) ==
    IF i > Len(preds) THEN sorted
    ELSE sort_desc_from(insert_desc(sorted, preds[i]), preds, i + 1)

sort_desc(preds) == sort_desc_from(<<>>, preds, 1)

\* Lines 77-78
trim(filtered, n) ==
    IF n > 0 THEN SubSeq(filtered, 1, IF n < Len(filtered) THEN n ELSE Len(filtered))
    ELSE filtered

\* Lines 81-87
normalise(filtered) ==
    [i \in 1..Len(filtered) |->
        [mood |-> lower(filtered[i].label), confidence |-> round3(filtered[i].score)]]

detect_mood(w, reply, n, t) ==
    LET r == oracle(w, "emo", reply)
    IN  IF r.status = "raise" THEN Raise(r.w)
        ELSE Return(normalise(trim(sort_desc(filter_threshold(r.out, t)), n)), r.w)

(***************************************************************************)
(* extraction.py: extract_action                                           *)
(***************************************************************************)

\* `not doc.sents`: doc.sents is the iterator line 119 hands to next(), a
\* generator object, and a generator object is truthy whatever it yields.
sents_is_falsy(doc) == FALSE

Initial == [p \in {"VERB", "NOUN", "AUX"} |->
               CASE p = "VERB" -> "V" [] p = "NOUN" -> "N" [] OTHER -> "A"]

\* t.dep_ == "ROOT" and t.pos_.startswith("V")
is_verb_root(t) == t.dep = "ROOT" /\ Initial[t.pos] = "V"

\* next((t for t in sent if ...), None)
RECURSIVE first_verb_root(_)
first_verb_root(sent) ==
    IF sent = <<>> THEN None
    ELSE IF is_verb_root(Head(sent)) THEN Some(Head(sent))
    ELSE first_verb_root(Tail(sent))

extract_action(w, reply) ==
    LET r == oracle(w, "nlp", reply)
    IN  IF r.status = "raise" THEN Raise(r.w)
        ELSE IF sents_is_falsy(r.out) THEN Return(None, r.w)
        ELSE IF r.out = <<>> THEN Raise(r.w)       \* next() raises StopIteration
        ELSE LET root == first_verb_root(r.out[1])
             IN  IF root = None THEN Return(None, r.w)
                 ELSE Return(Some(lower(root[1].lemma)), r.w)

(***************************************************************************)
(* prompt.py                                                               *)
(***************************************************************************)
DEF_IMG_STYLE ==
    "highly detailed digital art, cinematic lighting, 8k resolution, trending on ArtStation"

MOOD_AUDIO_MAP ==
    [m \in {"joy", "sadness", "fear", "anger", "surprise"} |->
        CASE m = "joy"      -> "bright strings and upbeat tempo"
          [] m = "sadness"  -> "slow piano with reverb"
          [] m = "fear"     -> "dissonant drones and suspenseful pulses"
          [] m = "anger"    -> "heavy percussion and distorted synths"
          [] OTHER          -> "sharp staccato notes"]

\* sep.join(parts)
RECURSIVE join(_, _)
join(sep, parts) ==
    IF parts = <<>> THEN ""
    ELSE IF Len(parts) = 1 THEN parts[1]
    ELSE parts[1] \o sep \o join(sep, Tail(parts))

\* The characters str.strip() removes, among those a string can hold here
\* (U+0000..U+00FF): space, tab, line feed, carriage return, form feed, then
\* U+000B, U+001C, U+001D, U+001E, U+001F, U+0085 and U+00A0.
Whitespace ==
    {" ", "\t", "\n", "\r", "\f",
     "", "", "", "", "", "", " "}

RECURSIVE lstrip(_)
lstrip(cs) == IF cs # <<>> /\ Head(cs) \in Whitespace THEN lstrip(Tail(cs)) ELSE cs

RECURSIVE rstrip(_)
rstrip(cs) ==
    IF cs # <<>> /\ cs[Len(cs)] \in Whitespace THEN rstrip(SubSeq(cs, 1, Len(cs) - 1)) ELSE cs

\* text.strip()
strip(cs) == rstrip(lstrip(cs))

\* Lines 44-48, one entity: st is [people, places].
partition_step(st, ent) ==
    IF ent.type = "PER" THEN [st EXCEPT !.people = Append(st.people, Str(ent.text))]
    ELSE IF ent.type = "LOC" THEN [st EXCEPT !.places = Append(st.places, Str(ent.text))]
    ELSE st

RECURSIVE partition_from(_, _, _)
partition_from(st, entities, i) ==
    IF i > Len(entities) THEN st
    ELSE partition_from(partition_step(st, entities[i]), entities, i + 1)

_partition_entities(entities) ==
    partition_from([people |-> <<>>, places |-> <<>>], entities, 1)

\* Mutant of subject_parts: no fallback subject.
subject_parts_no_fallback(people) == people

\* parts.extend(people or ["a figure"])
subject_parts(people) == IF people # <<>> THEN people ELSE <<"a figure">>

\* Lines 75-76: None and "" are falsy.
action_parts(action) == IF action # None /\ action[1] # "" THEN <<action[1]>> ELSE <<>>

\* Lines 77-78
place_parts(places) == IF places # <<>> THEN <<"in " \o join(", ", places)>> ELSE <<>>

\* Lines 81-82: None and "" are falsy.
style_parts(st) == IF st # None /\ st[1] # "" THEN <<st[1]>> ELSE <<>>

\* Lines 73-84
instructions_of(people, places, action, mood, st) ==
    join("; ", subject_parts(people) \o action_parts(action) \o place_parts(places)
                 \o <<"mood: " \o mood>> \o <<DEF_IMG_STYLE>> \o style_parts(st))

\* Lines 86-90
with_context(txt, instructions, ctx) ==
    IF ~ctx THEN instructions
    ELSE "### CONTEXT\n" \o Str(strip(txt)) \o "\n\n### IMAGE INSTRUCTIONS\n" \o instructions

\* Mutant of top_mood: a failed or empty detection becomes "neutral".
top_mood_defaulted(w, reply) ==
    LET m == detect_mood(w, reply, DefaultK, DefaultThreshold)
    IN  IF m.status = "raise" \/ m.value = <<>> THEN Return("neutral", m.w)
        ELSE Return(m.value[1].mood, m.w)

\* detect_mood(text)[0]["mood"]: IndexError on an empty list.
top_mood(w, reply) ==
    LET m == detect_mood(w, reply, DefaultK, DefaultThreshold)
    IN  IF m.status = "raise" \/ m.value = <<>> THEN Raise(m.w)
        ELSE Return(m.value[1].mood, m.w)

build_image_prompt(w, nreply, ereply, preply, txt, st, ctx) ==
    LET e == perform_ner(w, nreply)
    IN  IF e.status = "raise" THEN Raise(e.w)
        ELSE LET m == top_mood(e.w, ereply)
             IN  IF m.status = "raise" THEN Raise(m.w)
                 ELSE LET a == extract_action(m.w, preply)
                      IN  IF a.status = "raise" THEN Raise(a.w)
                          ELSE LET pp == _partition_entities(e.value)
                               IN  Return(with_context(txt,
                                              instructions_of(pp.people, pp.places,
                                                              a.value, m.value, st),
                                              ctx),
                                          a.w)

build_audio_prompt(w, ereply) ==
    LET m == top_mood(w, ereply)
    IN  IF m.status = "raise" THEN Raise(m.w)
        ELSE LET desc == IF m.value \in DOMAIN MOOD_AUDIO_MAP
                         THEN MOOD_AUDIO_MAP[m.value] ELSE "ambient soundscape"
             IN  Return(desc \o " loop", m.w)

(***************************************************************************)
(* Inputs: arguments and oracle replies.                                   *)
(***************************************************************************)
\* An oracle's reply to one call: whether its loader returns a handle when the
\* call has to load it, whether the call of the handle returns, and what it
\* returns. NoLoad: the loader raises (and so would a call). Down: the handle
\* loads and the call of it raises.
NoLoad == [loads |-> FALSE, up |-> FALSE, out |-> <<>>]
Down == [loads |-> TRUE, up |-> FALSE, out |-> <<>>]
Up(out) == [loads |-> TRUE, up |-> TRUE, out |-> out]
Replies(outs) == {NoLoad, Down} \cup {Up(o) : o \in outs}

\* NER words: a plain word, a word that starts with one '#', a bare
\* continuation marker, a continuation.
Words == {<<"H">>, <<"#", "H">>, <<"#", "#">>, <<"#", "#", "y">>}
EntityTypes == {"PER", "LOC", "ORG", "MISC"}
NerScores == {ScoreDen \div 2, ScoreDen}

Tokens == [word : Words, entity : {"PER", "LOC"}, score : NerScores]
TokenLists == SeqsUpTo(Tokens, MaxTokens)

RawTokens == [word : Words, entity_group : EntityTypes, score : NerScores]
NerReplies == Replies(SeqsUpTo(RawTokens, MaxNerTokens))

\* Tokens for the prompt builder, which reads only the text and the type.
PromptTokens ==
    [word : {<<"H">>, <<"#", "#", "y">>}, entity_group : {"PER", "LOC"}, score : {ScoreDen}]
        \cup [word : {<<"H">>}, entity_group : {"ORG", "MISC"}, score : {ScoreDen}]
PromptNerReplies == Replies(SeqsUpTo(PromptTokens, MaxPromptTokens))

\* The emotion oracle's labels, in the order it lists them.
Vocab == <<"NEUTRAL", "joy", "Sadness", "fear", "love">>
Scores == {0, 1, 3, ScoreDen \div 2, ScoreDen}

Preds(n, S) ==
    UNION {[1..m -> S] : m \in 0..(IF n < Len(Vocab) THEN n ELSE Len(Vocab))}

Distribution(f) == [i \in 1..Len(f) |-> [label |-> Vocab[i], score |-> f[i]]]

EmoReplies == Replies({Distribution(f) : f \in Preds(MaxLabels, Scores)})
PromptEmoReplies == Replies({Distribution(f) : f \in Preds(MaxPromptLabels, {1, ScoreDen})})
KValues == (-1)..(MaxLabels + 1)

ParseTokens == [dep : {"ROOT", "nsubj"}, pos : {"VERB", "NOUN", "AUX"}, lemma : {"Run", "be"}]
Sentences == SeqsUpTo(ParseTokens, MaxSentLen) \ {<<>>}
LaterSentences ==
    {<<[dep |-> "ROOT", pos |-> "VERB", lemma |-> "Be"]>>,
     <<[dep |-> "nsubj", pos |-> "NOUN", lemma |-> "be"]>>}
Docs ==
    {<<>>} \cup {<<s>> \o rest : s \in Sentences, rest \in SeqsUpTo(LaterSentences, MaxMoreSents)}
NlpReplies == Replies(Docs)
PromptNlpReplies ==
    Replies({<<>>,
             << <<[dep |-> "ROOT", pos |-> "VERB", lemma |-> "Run"]>> >>,
             << <<[dep |-> "ROOT", pos |-> "NOUN", lemma |-> "be"]>> >>})

Styles == {None, Some(""), Some("oil painting")}
PlainText == <<"H", "i">>
PaddedText == <<" ", "H", "i", "\r", "\n">>

Threads == 1..NThreads
Idle == [pc |-> "idle", kind |-> "none", handle |-> 0, warm |-> FALSE]
Pending == [status |-> "pending", value |-> <<>>]

(***************************************************************************)
(* Spec: one call, run to completion.                                      *)
(***************************************************************************)
NoRace == thr = [t \in Threads |-> Idle] /\ called = {} /\ raced = {}

CacheIn(cs) == cache \in cs /\ built = cache

Given(o, e, n, m, p, txt, kk, t, st, ctx) ==
    /\ op = o /\ pc = "call" /\ ret = Pending
    /\ ents = e /\ ner = n /\ emo = m /\ nlp = p
    /\ text = txt /\ k = kk /\ threshold = t /\ style = st /\ include_context = ctx

Init ==
    /\ NoRace
    /\ \/ \E e \in TokenLists :
             /\ Given("reconstruct_entities", e, Down, Down, Down, PlainText,
                      DefaultK, DefaultThreshold, None, FALSE)
             /\ CacheIn({Cold})
       \/ \E n \in NerReplies :
             /\ Given("perform_ner", <<>>, n, Down, Down, PlainText,
                      DefaultK, DefaultThreshold, None, FALSE)
             /\ CacheIn({Cold, Warm})
       \/ \E m \in EmoReplies, kk \in KValues, t \in Scores :
             /\ Given("detect_mood", <<>>, Down, m, Down, PlainText, kk, t, None, FALSE)
             /\ CacheIn({Cold, Warm})
       \/ \E p \in NlpReplies :
             /\ Given("extract_action", <<>>, Down, Down, p, PlainText,
                      DefaultK, DefaultThreshold, None, FALSE)
             /\ CacheIn({Cold, Warm})
       \/ \E n \in PromptNerReplies, m \in PromptEmoReplies, p \in PromptNlpReplies,
             st \in Styles, c \in {<<PlainText, FALSE>>, <<PaddedText, TRUE>>} :
             /\ Given("build_image_prompt", <<>>, n, m, p, c[1],
                      DefaultK, DefaultThreshold, st, c[2])
             /\ CacheIn({Cold})
       \/ \E m \in PromptEmoReplies :
             /\ Given("build_audio_prompt", <<>>, Down, m, Down, PlainText,
                      DefaultK, DefaultThreshold, None, FALSE)
             /\ CacheIn({Cold, Warm})

Inputs == <<op, ner, emo, nlp, text, k, threshold, style, include_context>>
RaceVars == <<thr, called, raced>>

Finish(r) ==
    /\ pc' = "done"
    /\ ret' = [status |-> r.status, value |-> r.value]
    /\ cache' = r.w.cache
    /\ built' = r.w.built
    /\ UNCHANGED <<Inputs, ents, RaceVars>>

ReconstructEntities ==
    /\ op = "reconstruct_entities" /\ pc = "call"
    /\ LET r == reconstruct_entities(ents)
       IN  /\ ret' = [status |-> r.status, value |-> r.value]
           /\ ents' = r.ents
    /\ pc' = "done"
    /\ UNCHANGED <<Inputs, cache, built, RaceVars>>

PerformNer ==
    /\ op = "perform_ner" /\ pc = "call"
    /\ Finish(perform_ner([cache |-> cache, built |-> built], ner))

DetectMood ==
    /\ op = "detect_mood" /\ pc = "call"
    /\ Finish(detect_mood([cache |-> cache, built |-> built], emo, k, threshold))

ExtractAction ==
    /\ op = "extract_action" /\ pc = "call"
    /\ Finish(extract_action([cache |-> cache, built |-> built], nlp))

BuildImagePrompt ==
    /\ op = "build_image_prompt" /\ pc = "call"
    /\ Finish(build_image_prompt([cache |-> cache, built |-> built], ner, emo, nlp,
                                 text, style, include_context))

BuildAudioPrompt ==
    /\ op = "build_audio_prompt" /\ pc = "call"
    /\ Finish(build_audio_prompt([cache |-> cache, built |-> built], emo))

Next ==
    \/ ReconstructEntities
    \/ PerformNer
    \/ DetectMood
    \/ ExtractAction
    \/ BuildImagePrompt
    \/ BuildAudioPrompt

Spec == Init /\ [][Next]_vars

(***************************************************************************)
(* Claims about reconstruct_entities.                                      *)
(***************************************************************************)
Reconstructed == op = "reconstruct_entities" /\ pc = "done"

\* A continuation token, read off the word's first two characters.
Continues(word) == Len(word) >= 2 /\ word[1] = "#" /\ word[2] = "#"

LeadingContinuation(ts) == ts # <<>> /\ Continues(ts[1].word)

\* The positions of the tokens that seed an entity, and the j-th of them.
Seeds(ts) == {i \in 1..Len(ts) : ~Continues(ts[i].word)}
SeedAt(ts, j) == CHOOSE s \in Seeds(ts) : Cardinality({x \in Seeds(ts) : x <= s}) = j

\* The positions merged into the j-th entity: its seed and the continuation
\* tokens up to the next seed.
GroupOf(ts, j) ==
    {i \in 1..Len(ts) : /\ i >= SeedAt(ts, j)
                        /\ \A s \in Seeds(ts) : s > SeedAt(ts, j) => i < s}

GroupEnd(ts, j) == CHOOSE i \in GroupOf(ts, j) : \A x \in GroupOf(ts, j) : x <= i

\* The words of positions a..b with their first two characters removed.
RECURSIVE Remainders(_, _, _)
Remainders(ts, a, b) ==
    IF a > b THEN <<>>
    ELSE SubSeq(ts[a].word, 3, Len(ts[a].word)) \o Remainders(ts, a + 1, b)

\* C1: when the first token is not a continuation token, the call returns and
\* every entity's score is the minimum of the scores of the tokens merged into
\* it: one of their scores, no larger than any of them, and within [0, 1].
C1_WeakestLinkScore ==
    (Reconstructed /\ ~LeadingContinuation(ents)) =>
        /\ ret.status = "ok"
        /\ \A j \in 1..Len(ret.value) :
              /\ j <= Cardinality(Seeds(ents))
              /\ ret.value[j].score \in {ents[i].score : i \in GroupOf(ents, j)}
              /\ \A i \in GroupOf(ents, j) : ret.value[j].score <= ents[i].score
              /\ ret.value[j].score \in 0..ScoreDen

\* An entity whose score is lower than its seeding token's: a continuation
\* token was the weakest link.
C1_Witness ==
    /\ Reconstructed /\ ret.status = "ok"
    /\ \E j \in 1..Len(ret.value) : ret.value[j].score < ents[SeedAt(ents, j)].score

\* C2: when the first token is not a continuation token, there is one entity
\* per non-continuation token, in order; its text is the seeding word followed
\* by the continuation words without their marker, its type the seeding
\* token's; the empty list gives the empty list.
C2_MergeStructure ==
    (Reconstructed /\ ~LeadingContinuation(ents)) =>
        /\ ret.status = "ok"
        /\ Len(ret.value) = Cardinality(Seeds(ents))
        /\ ents = <<>> => ret.value = <<>>
        /\ \A j \in 1..Len(ret.value) :
              LET s == SeedAt(ents, j)
              IN  /\ ret.value[j].text = ents[s].word \o Remainders(ents, s + 1, GroupEnd(ents, j))
                  /\ ret.value[j].type = ents[s].entity

\* Two entities from three tokens, the first merged from a seed and a
\* continuation of another type.
C2_Witness ==
    /\ Reconstructed /\ ret.status = "ok"
    /\ Len(ents) = 3 /\ Len(ret.value) = 2
    /\ ret.value[1].text = <<"H", "y">>
    /\ ents[2].entity # ents[1].entity
    /\ ret.value[1].type = ents[1].entity

\* C10: the call raises exactly when the first token is a continuation token,
\* and a call that returns leaves the caller's token list as it was.
C10_LeadingContinuationRaises ==
    [][(op = "reconstruct_entities" /\ pc = "call" /\ pc' = "done") =>
          /\ (ret'.status = "raise") <=> LeadingContinuation(ents)
          /\ ret'.status = "raise" => ret'.value = <<>>
          /\ ret'.status = "ok" => ents' = ents]_vars

\* A call on a list that starts with a continuation token, which raised.
C10_Witness ==
    /\ Reconstructed /\ ret.status = "raise"
    /\ Len(ents) = 2 /\ ents[1].word = <<"#", "#", "y">> /\ ents[2].word = <<"H">>

(***************************************************************************)
(* Claims about detect_mood.                                               *)
(***************************************************************************)
MoodReturned == op = "detect_mood" /\ pc = "done" /\ ret.status = "ok"

\* C3 as claimed: every returned confidence, as rounded, is at least the
\* threshold.
C3_RoundedAtLeastThreshold ==
    MoodReturned =>
        \A i \in 1..Len(ret.value) : ret.value[i].confidence * ScoreDen >= threshold * 1000

\* C3 as amended: every returned entry is the rounding of an oracle score that
\* is at least the threshold, so its confidence is at least the threshold
\* rounded to 3 digits, and at least the threshold itself when the threshold
\* has no more than 3 decimal digits.
C3_RoundingOfQualifyingScore ==
    MoodReturned =>
        \A i \in 1..Len(ret.value) :
            /\ \E j \in 1..Len(emo.out) :
                  /\ emo.out[j].score >= threshold
                  /\ ret.value[i] = [mood |-> lower(emo.out[j].label),
                                     confidence |-> round3(emo.out[j].score)]
            /\ ret.value[i].confidence >= round3(threshold)
            /\ (threshold * 1000) % ScoreDen = 0 =>
                  ret.value[i].confidence * ScoreDen >= threshold * 1000

\* An entry whose score equals the threshold and whose rounded confidence is
\* below it.
C3_Witness ==
    /\ MoodReturned
    /\ \E i \in 1..Len(ret.value) :
          /\ ret.value[i].confidence * ScoreDen < threshold * 1000
          /\ \E j \in 1..Len(emo.out) :
                emo.out[j].score = threshold /\ lower(emo.out[j].label) = ret.value[i].mood

\* The reference: the qualifying positions, ranked by descending score with
\* ties in the oracle's order.
Qualifying == {i \in 1..Len(emo.out) : emo.out[i].score >= threshold}
Before(i, j) ==
    \/ emo.out[i].score > emo.out[j].score
    \/ emo.out[i].score = emo.out[j].score /\ i < j
Rank(j) == 1 + Cardinality({i \in Qualifying : Before(i, j)})
Kept ==
    IF k > 0 /\ k < Cardinality(Qualifying) THEN k ELSE Cardinality(Qualifying)

\* C4: the result is filter, stable descending sort, truncate to k when k > 0:
\* the entry at each rank up to the cut is the qualifying label of that rank
\* (lowercased, its score rounded), and the confidences never increase.
C4_FilterSortTruncate ==
    MoodReturned =>
        /\ Len(ret.value) = Kept
        /\ \A j \in Qualifying :
              Rank(j) <= Kept =>
                  ret.value[Rank(j)] = [mood |-> lower(emo.out[j].label),
                                        confidence |-> round3(emo.out[j].score)]
        /\ \A i \in 1..(Len(ret.value) - 1) :
              ret.value[i].confidence >= ret.value[i + 1].confidence
        /\ (k = 3 /\ threshold = 0 /\ Len(emo.out) >= 3) => Len(ret.value) = 3

\* Three qualifying labels cut to two: the two that tie for the top, moved
\* ahead of the first label and kept in the oracle's order.
C4_Witness ==
    /\ MoodReturned /\ k = 2
    /\ Cardinality(Qualifying) = 3 /\ Len(ret.value) = 2
    /\ ret.value[1].confidence = ret.value[2].confidence
    /\ ret.value[1].mood = "joy" /\ ret.value[2].mood = "sadness"

(***************************************************************************)
(* Claims about extract_action, duplicates and the prompt builders.        *)
(***************************************************************************)
VerbRootAt(sent, i) == sent[i].dep = "ROOT" /\ sent[i].pos = "VERB"
HasVerbRoot(sent) == \E i \in 1..Len(sent) : VerbRootAt(sent, i)
FirstVerbRoot(sent) ==
    sent[CHOOSE i \in 1..Len(sent) :
            VerbRootAt(sent, i) /\ \A j \in 1..(i - 1) : ~VerbRootAt(sent, j)]

\* What extract_action is to return for a parsed document.
ExpectedAction(doc) ==
    IF doc = <<>> THEN None
    ELSE IF ~HasVerbRoot(doc[1]) THEN None
    ELSE Some(lower(FirstVerbRoot(doc[1]).lemma))

\* C5: when the parser answers, extract_action returns None for a text with no
\* sentences or with no verb root in its first sentence, and otherwise the
\* lowercased lemma of the first sentence's verb root; it raises nothing.
C5_NoSentenceIsNotAFailure ==
    (op = "extract_action" /\ pc = "done" /\ nlp.up) =>
        ret = [status |-> "ok", value |-> ExpectedAction(nlp.out)]

\* The part of C5 the code keeps: a document with at least one sentence.
ExtractActionWithSentences ==
    (op = "extract_action" /\ pc = "done" /\ nlp.up /\ nlp.out # <<>>) =>
        ret = [status |-> "ok", value |-> ExpectedAction(nlp.out)]

\* C6: one call returns no two entities with the same (text, type) and no two
\* moods with the same label.
C6_NoDuplicatesInOneCall ==
    /\ (op = "perform_ner" /\ pc = "done" /\ ret.status = "ok") =>
          \A i, j \in 1..Len(ret.value) :
              i # j => <<ret.value[i].text, ret.value[i].type>>
                         # <<ret.value[j].text, ret.value[j].type>>
    /\ MoodReturned =>
          \A i, j \in 1..Len(ret.value) : i # j => ret.value[i].mood # ret.value[j].mood

ImagePromptReturned == op = "build_image_prompt" /\ pc = "done" /\ ret.status = "ok"

\* The texts of the entities of one type, in extraction order.
TextsOfType(type) ==
    LET found == SelectSeq(reconstruct_entities(simplify(ner.out)).value,
                           LAMBDA e : e.type = type)
    IN  [i \in 1..Len(found) |-> Str(found[i].text)]

\* The label of the highest score, the first of them in the oracle's order.
TopLabel ==
    LET top == CHOOSE i \in 1..Len(emo.out) :
                   \A j \in 1..Len(emo.out) :
                       \/ emo.out[j].score < emo.out[i].score
                       \/ emo.out[j].score = emo.out[i].score /\ i <= j
    IN  lower(emo.out[top].label)

ExpectedInstructions ==
    LET people  == TextsOfType("PER")
        places  == TextsOfType("LOC")
        action  == ExpectedAction(nlp.out)
    IN  (IF people = <<>> THEN "a figure" ELSE join("; ", people))
        \o (IF action = None THEN "" ELSE "; " \o action[1])
        \o (IF places = <<>> THEN "" ELSE "; in " \o join(", ", places))
        \o "; mood: " \o TopLabel
        \o "; " \o DEF_IMG_STYLE
        \o (IF style = None \/ style = Some("") THEN "" ELSE "; " \o style[1])

ContextHeader ==
    IF include_context
    THEN "### CONTEXT\n" \o Str(strip(text)) \o "\n\n### IMAGE INSTRUCTIONS\n"
    ELSE ""

\* C7: the instruction string is the "; "-joined fragments in the fixed order
\* people (or "a figure" exactly when there is none), action if any, "in" and
\* the locations if any, the mood, the default style, the caller's style if
\* given; no person's text is empty and the string is not empty.
C7_FragmentOrder ==
    ImagePromptReturned =>
        /\ ret.value = ContextHeader \o ExpectedInstructions
        /\ \A p \in Range(TextsOfType("PER")) : p # ""
        /\ ret.value # ""

\* No person, an ORG entity that is left out, an action, a location, a style.
C7_Witness ==
    /\ ImagePromptReturned /\ ~include_context
    /\ \E i \in 1..Len(ner.out) : ner.out[i].entity_group = "ORG"
    /\ ret.value = "a figure; run; in H; mood: joy; " \o DEF_IMG_STYLE \o "; oil painting"

\* An analyzer call of build_image_prompt fails, or the mood list is empty.
ImageAnalyzerFails ==
    \/ ~ner.up \/ LeadingContinuation(ner.out)
    \/ ~emo.up \/ emo.out = <<>>
    \/ ~nlp.up \/ nlp.out = <<>>

\* C8: when an analyzer call of a builder fails, or detect_mood returns an
\* empty list, the builder raises and returns no prompt.
C8_FailurePropagates ==
    /\ (op = "build_image_prompt" /\ pc = "done" /\ ImageAnalyzerFails) =>
          ret = [status |-> "raise", value |-> <<>>]
    /\ (op = "build_audio_prompt" /\ pc = "done" /\ (~emo.up \/ emo.out = <<>>)) =>
          ret = [status |-> "raise", value |-> <<>>]

\* Entities and the action were extracted, the mood list is empty, and the
\* image builder raised.
C8_Witness ==
    /\ op = "build_image_prompt" /\ pc = "done"
    /\ ner.up /\ ~LeadingContinuation(ner.out) /\ nlp.up /\ nlp.out # <<>>
    /\ emo.up /\ emo.out = <<>>
    /\ ret.status = "raise"

(***************************************************************************)
(* SpecRace: threads calling perform_ner, detect_mood and extract_action.  *)
(* A call looks its oracle up in the lru_cache; on a miss the wrapped      *)
(* function builds the oracle while other threads run, and the wrapper     *)
(* then stores the result unless the key was stored meanwhile; the call    *)
(* uses the handle the wrapper returned to it.                             *)
(***************************************************************************)
DataVars == <<op, pc, ents, ner, emo, nlp, text, k, threshold, style, include_context, ret>>

InitRace ==
    /\ Given("none", <<>>, Down, Down, Down, PlainText,
             DefaultK, DefaultThreshold, None, FALSE)
    /\ cache = Cold /\ built = Cold
    /\ NoRace

\* Thread t calls the analyzer of `kind`: the wrapper's lookup hits or misses.
Call(t, kind) ==
    /\ thr[t].pc = "idle"
    /\ LET hit == lru_lookup(cache, kind)
       IN  /\ thr' = [thr EXCEPT ![t] =
                        [pc     |-> IF hit # 0 THEN "infer" ELSE "load",
                         kind   |-> kind,
                         handle |-> hit,
                         warm   |-> hit # 0]]
           /\ raced' = IF hit = 0 /\ \E u \in Threads \ {t} :
                                        thr[u].pc = "load" /\ thr[u].kind = kind
                       THEN raced \cup {kind} ELSE raced
    /\ called' = called \cup {kind}
    /\ UNCHANGED <<DataVars, cache, built>>

\* pipeline(...) or spacy.load(...) returns: a new oracle, stored if the key is
\* still absent, and handed to the caller either way.
LoadDone(t) ==
    /\ thr[t].pc = "load"
    /\ LET h == built[thr[t].kind] + 1
       IN  /\ built' = [built EXCEPT ![thr[t].kind] = h]
           /\ cache' = lru_store(cache, thr[t].kind, h)
           /\ thr' = [thr EXCEPT ![t].pc = "infer", ![t].handle = h]
    /\ UNCHANGED <<DataVars, called, raced>>

\* The load raises: nothing is cached and the call ends.
LoadFails(t) ==
    /\ thr[t].pc = "load"
    /\ thr' = [thr EXCEPT ![t] = Idle]
    /\ UNCHANGED <<DataVars, cache, built, called, raced>>

\* The oracle answers (or raises) and the analyzer's call ends.
Infer(t) ==
    /\ thr[t].pc = "infer"
    /\ thr' = [thr EXCEPT ![t] = Idle]
    /\ UNCHANGED <<DataVars, cache, built, called, raced>>

NextRace ==
    \E t \in Threads :
        \/ \E kind \in Kinds : Call(t, kind)
        \/ LoadDone(t)
        \/ LoadFails(t)
        \/ Infer(t)

SpecRace == InitRace /\ [][NextRace]_vars

\* C9 as claimed: under any interleaving each oracle is constructed at most
\* once, only after a call that needs it, and every call uses the cached
\* handle.
C9_ConstructedAtMostOnce ==
    \A kind \in Kinds :
        /\ built[kind] <= 1
        /\ built[kind] > 0 => kind \in called
        /\ \A t \in Threads :
              (thr[t].pc = "infer" /\ thr[t].kind = kind) => thr[t].handle = cache[kind]

\* C9 as amended: an oracle is constructed only after a call that needs it;
\* it is constructed at most once unless two overlapping calls both missed
\* the cache; the first oracle constructed is the one cached, for good; and a
\* call that found a handle cached uses that handle.
C9_LoadOnceUnlessRaced ==
    \A kind \in Kinds :
        /\ built[kind] > 0 => kind \in called
        /\ kind \notin raced => built[kind] <= 1
        /\ cache[kind] = (IF built[kind] > 0 THEN 1 ELSE 0)
        /\ \A t \in Threads :
              (thr[t].pc = "infer" /\ thr[t].kind = kind) =>
                  /\ thr[t].handle \in 1..built[kind]
                  /\ thr[t].warm => thr[t].handle = cache[kind]
                  /\ kind \notin raced => thr[t].handle = cache[kind]

\* One analyzer's first calls overlapped and built two oracles, the first of
\* them cached; another analyzer's oracle was built once and a later call
\* found it cached and uses it.
C9_Witness ==
    /\ \E kind \in raced : built[kind] = 2 /\ cache[kind] = 1
    /\ \E t \in Threads :
          /\ thr[t].pc = "infer" /\ thr[t].warm
          /\ thr[t].kind \notin raced
          /\ built[thr[t].kind] = 1 /\ thr[t].handle = 1

====
